---- MODULE Spec2Model ----
(***************************************************************************)
(* AutoTableTurf: the stabilizing detection wrapper, the Pattern/Card      *)
(* value types and the match orchestrator (TableTurfManager), as state     *)
(* machines.                                                               *)
(*                                                                         *)
(*   SpecDetect   one call of TableTurfManager.__multi_detect's wrapper    *)
(*   SpecPattern  Pattern.__init__ / Pattern.rotate on bounded grids       *)
(*   Spec         TableTurfManager.run, match after match                  *)
(*   SpecMove     one call of TableTurfManager.__move, for every Step      *)
(*   SpecStage    Stage.__init__ on bounded grids                          *)
(*   SpecHands    detection.hands classifying one cell of a card           *)
(***************************************************************************)
EXTENDS Integers, Sequences, FiniteSets, TLC

VARIABLES
    \* ---- __multi_detect wrapper (tableturf.py:59-74) ----
    md_pc,          \* "start" | "loop" | "returned"
    md_kind,        \* what the wrapped detector returns: "scalar" | "tuple"
    md_previous,    \* local `previous`
    md_i,           \* iterations of `for _ in range(max_loop)` completed
    md_result,      \* the value the wrapper returned
    md_warned,      \* logger.warn was called
    md_polls,       \* history: number of samples taken from detect_fn
    md_window,      \* history: the last HistLen samples taken
    md_firstRepeat, \* history: index i >= 1 of the first sample equal to sample i-1 (0: none yet)
    \* ---- Pattern / Card (model/card.py) ----
    p_pc,           \* "new" | "built" | "raised"
    p_grid,         \* the grid handed to Pattern(...) / Card(...)
    p_pat,          \* the Pattern under study
    p_orig,         \* the Pattern first constructed from p_grid
    p_rots,         \* number of rotate(1) calls applied to p_orig to get p_pat
    p_card,         \* the Card constructed from p_grid
    \* ---- TableTurfManager.run and what it calls (tableturf.py:84-267) ----
    pc,             \* position in run / the method it is executing
    deck,           \* run's `deck` argument
    closer,         \* run's `closer` argument: the Exit policy's thresholds
    stats,          \* self.stats: win, battle, time, start_time
    now,            \* the clock read by datetime.now().timestamp()
    round,          \* loop variable of `for round in range(12, 0, -1)`
    hands,          \* status.hands: the cards detection.hands read, by their place in Hands
    step,           \* the Step returned by ai.next_step
    result,         \* the Result returned by __get_result
    close,          \* `close = closer.exit(self.stats)`
    target,         \* local `target` of the cursor loop being executed
    count,          \* local `count` of __close
    uiRot,          \* environment: quarter turns the game's preview is rotated by
    out,            \* history: the last call made on the controller (or sleep)
    calls,          \* history: ai.next_step calls made in the current match
    completed,      \* history: matches whose 12 rounds were played
    turns,          \* history: quarter turns issued by the current __move
    exact,          \* history: every preview read by the current rotation loop was the shown one
    \* ---- Stage (model/stage.py) ----
    s_pc,           \* "new" | "built"
    s_grid,         \* the grid handed to Stage(...)
    s_stage,        \* the Stage constructed from s_grid
    \* ---- detection.hands (manager/detection/card.py), one cell of one card ----
    h_pc,           \* "new" | "classified"
    h_counts,       \* pixels of the cell's ROI inside each of the four HSV bands
    h_cell          \* grids[i][k] after lines 83-87

md_vars == <<md_pc, md_kind, md_previous, md_i, md_result, md_warned,
             md_polls, md_window, md_firstRepeat>>

p_vars == <<p_pc, p_grid, p_pat, p_orig, p_rots, p_card>>

r_vars == <<pc, deck, closer, stats, now, round, hands, step, result, close, target, count,
            uiRot, out, calls, completed, turns, exact>>

s_vars == <<s_pc, s_grid, s_stage>>

h_vars == <<h_pc, h_counts, h_cell>>

vars == <<md_vars, p_vars, r_vars, s_vars, h_vars>>

None == "None"

(***************************************************************************)
(* Bounds                                                                  *)
(***************************************************************************)
NumVals == 3      \* distinct scalar samples a detector may yield
HistLen == 3      \* samples kept in the history window
MaxCells == 6     \* input grids have rows * columns <= MaxCells
MaxRots == 4      \* rotate(1) calls applied in a row
MaxBattle == 2    \* matches played in one run of the model
MaxDeck == 1      \* deck slots are 0..MaxDeck
MaxTurns == 4     \* quarter turns one __move may issue in the model
MaxInk == 2       \* ink totals of a Result range over 0..MaxInk
MaxStageCells == 4 \* Stage grids of every shape up to this many cells

(***************************************************************************)
(* __multi_detect                                                          *)
(***************************************************************************)
max_loop == 100   \* default of the max_loop parameter

\* Python values a detector returns: a scalar, a numpy array, or a tuple of those.
Scalar(x) == [kind |-> "scalar", d |-> <<x>>]
NdArray(s) == [kind |-> "ndarray", d |-> s]
Tuple(es) == [kind |-> "tuple", d |-> es]
NoSample == [kind |-> "unset", d |-> <<>>]

ScalarSamples == {Scalar(x) : x \in 1..NumVals}
TupleSamples ==
    {Tuple(<<Scalar(a), NdArray(<<b, 1>>)>>) : a \in 1..2, b \in 1..2}
    \cup {Tuple(<<Scalar(a)>>) : a \in 1..2}
Samples(kind) == IF kind = "scalar" THEN ScalarSamples ELSE TupleSamples

\* __equal(a, b): np.all(a == b) for two arrays (of one shape), a == b otherwise.
Equal(a, b) ==
    IF a.kind = "ndarray" /\ b.kind = "ndarray"
    THEN Len(a.d) = Len(b.d) /\ \A k \in 1..Len(a.d) : a.d[k] = b.d[k]
    ELSE a.kind = b.kind /\ a.d = b.d

\* The test of lines 65-69 that makes the wrapper return `current`.
SameSampleLenOnly(previous, current) ==
    previous.kind = current.kind /\ Len(previous.d) = Len(current.d)
SameSample(previous, current) ==
    IF previous.kind = "tuple" /\ current.kind = "tuple"
    THEN /\ Len(previous.d) = Len(current.d)
         /\ \A k \in 1..Len(previous.d) : Equal(previous.d[k], current.d[k])
    ELSE current.kind = previous.kind /\ current.d = previous.d

\* Line 70: what `previous` holds when the next iteration starts.
KeepPrevious(previous, current) == previous
NextPrevious(previous, current) == current

Push(w, s) == IF Len(w) < HistLen THEN Append(w, s) ELSE Append(Tail(w), s)
Last(w) == w[Len(w)]

(***************************************************************************)
(* Grid, Pattern, Card (model/card.py)                                     *)
(***************************************************************************)
\* Grid enum values (tableturf/model/grid.py).
Empty == 0
MyInk == 1
MySpecial == 2
HisInk == 3

CellValues == {Empty, MyInk, MySpecial, HisInk}

\* An ndarray holds its elements: the sequence f with every element evaluated.
RECURSIVE Build(_, _)
Build(f, n) == IF n = 0 THEN <<>> ELSE Append(Build(f, n - 1), f[n])
AsArray(f) == Build(f, Len(f))

RECURSIVE Flatten(_)
Flatten(ss) == IF ss = <<>> THEN <<>> ELSE Head(ss) \o Flatten(Tail(ss))

\* seq[mask]: numpy boolean-mask indexing keeps the entries whose mask is True.
MaskSelect(seq, mask) ==
    Flatten([k \in 1..Len(seq) |-> IF mask[k] THEN <<seq[k]>> ELSE <<>>])

NumRows(g) == Len(g)
NumCols(g) == IF g = <<>> THEN 0 ELSE Len(g[1])

\* np.any(inks, axis=1) and np.any(inks, axis=0), inks = grid != Empty (lines 14-16).
RowMask(g) == [i \in 1..NumRows(g) |-> \E j \in 1..NumCols(g) : g[i][j] # Empty]
ColMask(g) == [j \in 1..NumCols(g) |-> \E i \in 1..NumRows(g) : g[i][j] # Empty]

\* The sub-grid from the first to the last non-empty row and column.
BoundingBox(g) ==
    LET rs == {i \in 1..NumRows(g) : RowMask(g)[i]}
        cs == {j \in 1..NumCols(g) : ColMask(g)[j]}
    IN  IF rs = {} THEN <<>>
        ELSE LET r0 == CHOOSE i \in rs : \A k \in rs : i <= k
                 r1 == CHOOSE i \in rs : \A k \in rs : i >= k
                 c0 == CHOOSE j \in cs : \A k \in cs : j <= k
                 c1 == CHOOSE j \in cs : \A k \in cs : j >= k
             IN  [i \in 1..(r1 - r0 + 1) |-> [j \in 1..(c1 - c0 + 1) |-> g[r0 + i - 1][c0 + j - 1]]]

\* Line 17: grid[row_mask][:, col_mask]
Trim(g) ==
    LET rows == MaskSelect(g, RowMask(g))
        col_mask == AsArray(ColMask(g))
    IN  AsArray([i \in 1..Len(rows) |-> MaskSelect(rows[i], col_mask)])

\* Line 22: np.argwhere(ink or special) as 0-based (row, col) pairs in row-major order.
InkIndexes(g) ==
    Flatten([i \in 1..NumRows(g) |->
        Flatten([j \in 1..NumCols(g) |->
            IF g[i][j] = MyInk \/ g[i][j] = MySpecial THEN << <<i - 1, j - 1>> >> ELSE <<>>])])

\* Line 23: grid[indexes[:, 0], indexes[:, 1]]
Squares(g, indexes) == [k \in 1..Len(indexes) |-> g[indexes[k][1] + 1][indexes[k][2] + 1]]

\* Line 24: indexes - indexes[0]
OffsetsRaw(indexes) == indexes
Offsets(indexes) ==
    [k \in 1..Len(indexes) |-> <<indexes[k][1] - indexes[1][1], indexes[k][2] - indexes[1][2]>>]

\* Pattern.__init__ (lines 8-25). indexes[0] raises IndexError when no cell is
\* MyInk or MySpecial.
PatternInit(grid) ==
    LET g == Trim(grid)
        indexes == InkIndexes(g)
    IN  IF indexes = <<>>
        THEN [ok |-> FALSE, error |-> "IndexError"]
        ELSE [ok |-> TRUE, grid |-> g, squares |-> AsArray(Squares(g, indexes)),
              offsets |-> AsArray(Offsets(indexes)), size |-> Len(indexes)]

\* np.rot90(m): a quarter turn counterclockwise; an r x c grid becomes c x r.
Rot90(g) ==
    LET r == NumRows(g)
        c == NumCols(g)
    IN  AsArray([i \in 1..c |-> AsArray([j \in 1..r |-> g[j][c + 1 - i]])])

RECURSIVE RotTimes(_, _)
RotTimes(g, n) == IF n = 0 THEN g ELSE RotTimes(Rot90(g), n - 1)

\* np.rot90(m, k)
Rot90K(g, k) == RotTimes(g, k % 4)

\* Pattern.rotate (lines 55-56)
PatternRotate(p, rotate) == PatternInit(Rot90K(p.grid, rotate))

\* np.all(a == b) on arrays of rows: element-wise for equal lengths, a length-1
\* array is broadcast against the other, other length mismatches compare False.
AllEqual(a, b) ==
    IF Len(a) = Len(b) THEN \A k \in 1..Len(a) : a[k] = b[k]
    ELSE IF Len(a) = 1 THEN \A k \in 1..Len(b) : b[k] = a[1]
    ELSE IF Len(b) = 1 THEN \A k \in 1..Len(a) : a[k] = b[1]
    ELSE FALSE

\* Pattern.__eq__ (lines 61-64)
PatternEq(p, q) == AllEqual(p.offsets, q.offsets) /\ AllEqual(p.squares, q.squares)

\* Card.__init__ (lines 81-90): the four patterns; any failing Pattern(...) fails the Card.
CardInit(grid, sp_cost) ==
    LET ps == AsArray([i \in 1..4 |-> PatternInit(Rot90K(grid, i - 1))])
    IN  IF \E i \in 1..4 : ~ps[i].ok
        THEN [ok |-> FALSE, error |-> "IndexError"]
        ELSE [ok |-> TRUE, sp_cost |-> sp_cost, patterns |-> ps, size |-> ps[1].size]

\* Card.get_pattern (lines 106-112)
GetPattern(card, rotate) == card.patterns[(rotate % 4) + 1]

\* The rectangular grids of at most MaxCells cells.
Dims == {d \in (1..MaxCells) \X (1..MaxCells) : d[1] * d[2] <= MaxCells}
GridsOf(r, c) == [1..r -> [1..c -> CellValues]]
Grids == UNION {GridsOf(d[1], d[2]) : d \in Dims}

(***************************************************************************)
(* Exit, Stats, Result and the helpers of TableTurfManager                 *)
(***************************************************************************)
Rounds == 12        \* for round in range(12, 0, -1)
SkipSlot == 4       \* __move_hands_cursor(4)
WrongSpecialSlot == SkipSlot
SpecialSlot == 5    \* __move_hands_cursor(5)
UnlockPeriod == 6   \* count = (count + 1) % 6

\* Optional[int]: None is the empty set, n is {n}.
Unset == {}
Some(n) == {n}

\* Exit.exit (lines 26-33)
ExitStrict(c, st) ==
    \/ \E m \in c.max_win : m < st.win
    \/ \E m \in c.max_battle : m < st.battle
    \/ \E m \in c.max_time : m < st.time
Exit(c, st) ==
    IF \E m \in c.max_win : m <= st.win THEN TRUE
    ELSE IF \E m \in c.max_battle : m <= st.battle THEN TRUE
    ELSE IF \E m \in c.max_time : m <= st.time THEN TRUE
    ELSE FALSE

\* Stats() as constructed in __init__ (line 81).
NewStats == [win |-> 0, battle |-> 0, time |-> 0, start_time |-> 0]

\* __get_result (lines 234-238): always Result(0, 0).
GetResult == [my_ink |-> 0, his_ink |-> 0]

\* __update_stats (lines 240-245), `t` being the clock read at line 243.
UpdateStatsAlwaysWin(st, res, t) ==
    [st EXCEPT !.win = @ + 1, !.time = t - st.start_time, !.battle = @ + 1]
UpdateStats(st, res, t) ==
    [st EXCEPT !.win = IF res.my_ink > res.his_ink THEN @ + 1 ELSE @,
               !.time = t - st.start_time,
               !.battle = @ + 1]

\* `for round in range(12, 0, -1)`: the rounds that follow `round`.
SkipARound(r) == r - 2
NextRound(r) == r - 1

\* __close, line 251
CloseTargetSwapped(c) == IF c THEN 1 ELSE 0
CloseTarget(c) == IF c THEN 0 ELSE 1

\* What the stabilized cursor detectors return: an index, or -1 for "not visible".
DeckCursor == -1..MaxDeck
RedrawCursor == -1..1
HandsCursor == -1..5
ReplayCursor == -1..1

\* The four cards in hand (status.hands): an L, a line and a single square that
\* are their own half turn or quarter turn, and a block.
HandGrids ==
    << << <<MyInk, Empty>>, <<MyInk, MySpecial>> >>,
       << <<MyInk, MySpecial, MyInk>> >>,
       << <<MySpecial>> >>,
       << <<MyInk, MyInk>>, <<MyInk, MySpecial>> >> >>
Hands == AsArray([i \in 1..4 |-> CardInit(HandGrids[i], i)])
HandIds == <<1, 2, 3, 4>>
HandsOf(h) == AsArray([i \in 1..Len(h) |-> Hands[h[i]]])

\* Card.__eq__ (lines 117-120)
CardEq(a, b) == PatternEq(a.patterns[1], b.patterns[1])

\* list.index: the first position holding an equal element (0-based).
IndexZero(list, card) == 0
Index(list, card) ==
    (CHOOSE i \in 1..Len(list) :
        /\ CardEq(list[i], card)
        /\ \A j \in 1..(i - 1) : ~CardEq(list[j], card)) - 1

\* The Steps ai.next_step may return; card is the hand slot of step.card.
AllSteps == [action : {"Place", "SpecialAttack", "Skip"}, card : 0..3, rotate : 0..3]
RunSteps ==
    { [action |-> "Skip", card |-> 1, rotate |-> 0],
      [action |-> "Place", card |-> 3, rotate |-> 2],
      [action |-> "SpecialAttack", card |-> 0, rotate |-> 0] }
NoStep == [action |-> "None", card |-> 0, rotate |-> 0]

StepCard(s) == Hands[hands[s.card + 1]]

\* What detection.preview may read: the card as the game shows it, the card at
\* another rotation (a frame from before the game redrew), or something else.
NoisePattern == PatternInit(<< <<MyInk, MyInk>>, <<MyInk, MyInk>> >>)
PreviewReadings(card) == {GetPattern(card, q) : q \in 0..3} \cup {NoisePattern}

\* action.compare_pattern: exact equality or the approximate comparator's verdict.
ComparePattern(a, b, approx) == PatternEq(a, b) \/ approx

\* np.argmax of a list of booleans: the first True, 0 when there is none.
ArgMax(bs) ==
    IF \E i \in 1..Len(bs) : bs[i]
    THEN (CHOOSE i \in 1..Len(bs) : bs[i] /\ \A j \in 1..(i - 1) : ~bs[j]) - 1
    ELSE 0

\* Lines 210-212; `approx` is np.argmax over action.compare_pattern.
CurrentRotate(all_patterns, actual, approx) ==
    LET c == ArgMax([i \in 1..4 |-> PatternEq(all_patterns[i], actual)])
    IN  IF c = 0 /\ ~PatternEq(all_patterns[1], actual) THEN approx ELSE c

\* Line 213
RotateSteps(target_rotate, current_rotate) == (target_rotate + 4 - current_rotate) % 4

\* Calls on the controller, and sleep.
NoOut == [kind |-> "none", dev |-> "", target |-> 0, current |-> 0, n |-> 0]
Macro(dev, t, c, n) == [kind |-> "macro", dev |-> dev, target |-> t, current |-> c, n |-> n]
PressOnce(n) == [kind |-> "press", dev |-> "A", target |-> 0, current |-> 0, n |-> 1]
Press(n) == [kind |-> "press", dev |-> "A", target |-> 0, current |-> 0, n |-> n]
Sleep(dev) == [kind |-> "sleep", dev |-> dev, target |-> 0, current |-> -1, n |-> 0]

(***************************************************************************)
(* Stage (model/stage.py). Coordinates are 0-based <<row, col>> pairs.     *)
(***************************************************************************)
HisSpecial == 4
Wall == 5
StageCellValues == {Empty, MyInk, MySpecial, HisInk, HisSpecial, Wall}

\* Stage.__NEIGHBOURHOOD_OFFSETS (lines 7-16)
NEIGHBOURHOOD_OFFSETS ==
    << <<-1, -1>>, <<-1, 0>>, <<-1, 1>>, <<0, -1>>, <<0, 1>>, <<1, -1>>, <<1, 0>>, <<1, 1>> >>

\* self.__grid[idx[0], idx[1]]
At(g, idx) == g[idx[1] + 1][idx[2] + 1]

\* np.argwhere(self.__grid == v1 | self.__grid == v2): row-major coordinates.
ArgWhere(g, vals) ==
    Flatten([i \in 1..NumRows(g) |->
        Flatten([j \in 1..NumCols(g) |->
            IF g[i][j] \in vals THEN << <<i - 1, j - 1>> >> ELSE <<>>])])

\* neighborhoods (lines 30-31): Stage.__NEIGHBOURHOOD_OFFSETS + idx
Neighborhoods(idx) ==
    AsArray([k \in 1..8 |-> <<NEIGHBOURHOOD_OFFSETS[k][1] + idx[1],
                             NEIGHBOURHOOD_OFFSETS[k][2] + idx[2]>>])

\* within_grid (lines 33-37)
WithinGrid(g, indexes) ==
    LET m == NumRows(g)
        n == NumCols(g)
    IN  MaskSelect(indexes, [k \in 1..Len(indexes) |->
            /\ indexes[k][1] >= 0 /\ indexes[k][1] < m
            /\ indexes[k][2] >= 0 /\ indexes[k][2] < n])

\* is_fiery (lines 39-42); np.all of no element is True.
IsFieryAllEight(g, idx) ==
    LET valid_nbhd == WithinGrid(g, Neighborhoods(idx))
    IN  /\ Len(valid_nbhd) = 8
        /\ \A k \in 1..Len(valid_nbhd) : At(g, valid_nbhd[k]) # Empty
IsFiery(g, idx) ==
    LET valid_nbhd == WithinGrid(g, Neighborhoods(idx))
    IN  \A k \in 1..Len(valid_nbhd) : At(g, valid_nbhd[k]) # Empty

\* split_sp (lines 44-48)
SplitSp(g, sp) ==
    IF sp = <<>>
    THEN << <<>>, <<>> >>
    ELSE LET is_sp_fiery == AsArray([k \in 1..Len(sp) |-> IsFiery(g, sp[k])])
         IN  << MaskSelect(sp, is_sp_fiery),
                MaskSelect(sp, [k \in 1..Len(sp) |-> ~is_sp_fiery[k]]) >>

\* np.full(shape=(n, 2), fill_value=-1)
Invalid(n) == [k \in 1..n |-> <<-1, -1>>]

\* ink_neighborhoods (lines 50-54): the in-bounds Empty neighbours, padded to 8 rows
InkNeighborhoods(g, idx) ==
    LET nbhd == WithinGrid(g, Neighborhoods(idx))
        valid_nbhd == MaskSelect(nbhd, [k \in 1..Len(nbhd) |-> At(g, nbhd[k]) = Empty])
    IN  valid_nbhd \o Invalid(8 - Len(valid_nbhd))

\* sp_neighborhoods (lines 59-64)
SpNeighborhoods(g, idx) ==
    LET nbhd == WithinGrid(g, Neighborhoods(idx))
        valid_nbhd == MaskSelect(nbhd, [k \in 1..Len(nbhd) |->
                          At(g, nbhd[k]) \in {Empty, MyInk, HisInk}])
    IN  valid_nbhd \o Invalid(8 - Len(valid_nbhd))

\* np.unique(rows, axis=0): the distinct rows in lexicographic order.
RowLess(a, b) == a[1] < b[1] \/ (a[1] = b[1] /\ a[2] < b[2])
RECURSIVE SortedRows(_)
SortedRows(S) ==
    IF S = {} THEN <<>>
    ELSE LET first == CHOOSE a \in S : \A b \in S : a = b \/ RowLess(a, b)
         IN  <<first>> \o SortedRows(S \ {first})
NoUnique(rows) == rows
Unique(rows) == SortedRows({rows[k] : k \in 1..Len(rows)})

\* collect_ink_neighborhoods (lines 56-57)
CollectInkNeighborhoods(g, ink) ==
    WithinGrid(g, Unique(Flatten([k \in 1..Len(ink) |-> InkNeighborhoods(g, ink[k])])))

\* collect_sp_neighborhoods (lines 66-67)
CollectSpNeighborhoods(g, sp) ==
    WithinGrid(g, Unique(Flatten([k \in 1..Len(sp) |-> SpNeighborhoods(g, sp[k])])))

\* Lines 81-83: zeros_like, then True at both players' fiery special cells.
FieryGrid(g, my_fiery_sp, his_fiery_sp) ==
    AsArray([i \in 1..NumRows(g) |-> AsArray([j \in 1..NumCols(g) |->
        \/ \E k \in 1..Len(my_fiery_sp) : my_fiery_sp[k] = <<i - 1, j - 1>>
        \/ \E k \in 1..Len(his_fiery_sp) : his_fiery_sp[k] = <<i - 1, j - 1>>])])

\* Stage.__init__ (lines 18-96)
StageInit(grid) ==
    LET g == AsArray([i \in 1..NumRows(grid) |-> AsArray(grid[i])])
        my_ink == ArgWhere(g, {MyInk, MySpecial})
        my_sp == ArgWhere(g, {MySpecial})
        my_split == SplitSp(g, my_sp)
        his_ink == ArgWhere(g, {HisInk, HisSpecial})
        his_sp == ArgWhere(g, {HisSpecial})
        his_split == SplitSp(g, his_sp)
    IN  [grid |-> g,
         size |-> Len(ArgWhere(g, StageCellValues \ {Wall})),
         my_ink |-> my_ink,
         my_sp |-> my_sp,
         my_fiery_sp |-> my_split[1],
         my_unfiery_sp |-> my_split[2],
         my_neighborhoods |-> CollectInkNeighborhoods(g, my_ink),
         my_sp_neighborhoods |-> CollectSpNeighborhoods(g, my_sp),
         his_ink |-> his_ink,
         his_sp |-> his_sp,
         his_fiery_sp |-> his_split[1],
         his_unfiery_sp |-> his_split[2],
         his_neighborhoods |-> CollectInkNeighborhoods(g, his_ink),
         his_sp_neighborhoods |-> CollectSpNeighborhoods(g, his_sp),
         fiery_grid |-> FieryGrid(g, my_split[1], his_split[1])]

\* The grids handed to Stage(...): every grid of at most MaxStageCells cells,
\* and the 3 x 3 grids with any centre and a border of Empty and HisSpecial cells.
StageDims == {d \in (1..MaxStageCells) \X (1..MaxStageCells) : d[1] * d[2] <= MaxStageCells}
SmallStages == UNION {[1..d[1] -> [1..d[2] -> StageCellValues]] : d \in StageDims}
RingStages ==
    { [i \in 1..3 |-> [j \in 1..3 |-> IF i = 2 /\ j = 2 THEN centre ELSE border[3 * (i - 1) + j]]] :
        centre \in StageCellValues, border \in [1..9 -> {Empty, HisSpecial}] }
StageGrids == SmallStages \cup RingStages
NoStage == [grid |-> <<>>]

S_Idle == s_pc = "idle" /\ s_grid = <<>> /\ s_stage = NoStage

(***************************************************************************)
(* detection.hands (manager/detection/card.py): one cell of one card       *)
(***************************************************************************)
HANDS_GRID_ROI_WIDTH == 14
HANDS_GRID_ROI_HEIGHT == 14
\* GRID_PIXEL_RATIO = 0.3, as numerator and denominator
GRID_PIXEL_RATIO == <<3, 10>>

\* __grid_ratios(...) > GRID_PIXEL_RATIO, with
\* __grid_ratios = np.sum(mask == 255) / (HANDS_GRID_ROI_WIDTH * HANDS_GRID_ROI_HEIGHT)
AboveRatio(pixels) ==
    pixels * GRID_PIXEL_RATIO[2] > GRID_PIXEL_RATIO[1] * (HANDS_GRID_ROI_WIDTH * HANDS_GRID_ROI_HEIGHT)

\* Lines 83-87: zeros, then the four masked assignments in source order.
Classify(counts) ==
    LET grids0 == 0
        grids1 == IF AboveRatio(counts.ink) THEN MyInk ELSE grids0
        grids2 == IF AboveRatio(counts.special) THEN MySpecial ELSE grids1
        grids3 == IF AboveRatio(counts.dark_ink) THEN MyInk ELSE grids2
    IN  IF AboveRatio(counts.dark_special) THEN MySpecial ELSE grids3

\* Pixel counts cv2.inRange can give for one ROI: none, just below and just
\* above the ratio, all. The two lighter bands and the darker bands share no
\* pixel (hue and value ranges, lines 46-53); the two darker bands share hue 27.
PixelCounts == {0, 58, 59, HANDS_GRID_ROI_WIDTH * HANDS_GRID_ROI_HEIGHT}
BandCounts ==
    { c \in [ink : PixelCounts, special : PixelCounts,
             dark_ink : PixelCounts, dark_special : PixelCounts] :
        c.ink + c.special + (IF c.dark_ink > c.dark_special THEN c.dark_ink ELSE c.dark_special)
            <= HANDS_GRID_ROI_WIDTH * HANDS_GRID_ROI_HEIGHT }
NoCounts == [ink |-> 0, special |-> 0, dark_ink |-> 0, dark_special |-> 0]

H_Idle == h_pc = "idle" /\ h_counts = NoCounts /\ h_cell = 0

R_Idle ==
    /\ pc = "idle" /\ deck = 0
    /\ closer = [max_win |-> Unset, max_battle |-> Unset, max_time |-> Unset]
    /\ stats = NewStats /\ now = 0 /\ round = 0 /\ hands = <<>> /\ step = NoStep
    /\ result = GetResult /\ close = FALSE /\ target = 0 /\ count = 0
    /\ uiRot = 0 /\ out = NoOut /\ calls = 0 /\ completed = 0 /\ turns = 0
    /\ exact = TRUE

P_Idle ==
    /\ p_pc = "idle" /\ p_grid = <<>> /\ p_pat = None /\ p_orig = None
    /\ p_rots = 0 /\ p_card = None

MD_Idle ==
    /\ md_pc = "idle" /\ md_kind = None /\ md_previous = NoSample /\ md_i = 0
    /\ md_result = NoSample /\ md_warned = FALSE /\ md_polls = 0
    /\ md_window = <<>> /\ md_firstRepeat = 0

MD_Init ==
    /\ P_Idle
    /\ R_Idle
    /\ S_Idle
    /\ H_Idle
    /\ md_pc = "start"
    /\ md_kind \in {"scalar", "tuple"}
    /\ md_previous = NoSample
    /\ md_i = 0
    /\ md_result = NoSample
    /\ md_warned = FALSE
    /\ md_polls = 0
    /\ md_window = <<>>
    /\ md_firstRepeat = 0

\* Line 61: previous = detect_fn(capture())
MD_First ==
    /\ md_pc = "start"
    /\ \E s \in Samples(md_kind) :
        /\ md_previous' = s
        /\ md_window' = Push(md_window, s)
    /\ md_polls' = md_polls + 1
    /\ md_pc' = "loop"
    /\ UNCHANGED <<md_kind, md_i, md_result, md_warned, md_firstRepeat, p_vars, r_vars, s_vars, h_vars>>

\* Lines 62-70: one iteration of the for loop.
MD_Poll ==
    /\ md_pc = "loop"
    /\ md_i < max_loop
    /\ \E current \in Samples(md_kind) :
        /\ md_window' = Push(md_window, current)
        /\ md_firstRepeat' = IF md_firstRepeat = 0 /\ current = Last(md_window)
                             THEN md_polls ELSE md_firstRepeat
        /\ IF SameSample(md_previous, current)
           THEN /\ md_result' = current
                /\ md_pc' = "returned"
                /\ UNCHANGED <<md_previous, md_i>>
           ELSE /\ md_previous' = NextPrevious(md_previous, current)
                /\ md_i' = md_i + 1
                /\ UNCHANGED <<md_result, md_pc>>
    /\ md_polls' = md_polls + 1
    /\ UNCHANGED <<md_kind, md_warned, p_vars, r_vars, s_vars, h_vars>>

\* Lines 71-72: the loop ran max_loop times without returning.
MD_Exhausted ==
    /\ md_pc = "loop"
    /\ md_i = max_loop
    /\ md_warned' = TRUE
    /\ md_result' = md_previous
    /\ md_pc' = "returned"
    /\ UNCHANGED <<md_kind, md_previous, md_i, md_polls, md_window, md_firstRepeat, p_vars, r_vars, s_vars, h_vars>>

MD_Next == MD_First \/ MD_Poll \/ MD_Exhausted

SpecDetect == MD_Init /\ [][MD_Next]_vars
SpecDetectFair == SpecDetect /\ WF_vars(MD_Next)

\* C1: the wrapper returns at the first poll i >= 1 whose sample equals the
\* sample of poll i-1, returns that sample, and takes no further sample
\* (i+1 samples in all); while it is still polling no two consecutive samples
\* were equal.
C1_ReturnsAtFirstRepeat ==
    /\ md_pc = "loop" => md_firstRepeat = 0
    /\ (md_pc = "returned" /\ ~md_warned) =>
          /\ md_firstRepeat >= 1
          /\ md_polls = md_firstRepeat + 1
          /\ md_result = Last(md_window)
          /\ md_window[Len(md_window) - 1] = md_result
    /\ (md_pc = "returned" /\ md_firstRepeat # 0) => md_polls = md_firstRepeat + 1

\* The sequence 1,2,2: returned 2 after the 3rd poll.
C1_Witness ==
    /\ md_pc = "returned"
    /\ md_window = <<Scalar(1), Scalar(2), Scalar(2)>>
    /\ md_polls = 3
    /\ md_result = Scalar(2)

C1_TupleWitness ==
    /\ md_pc = "returned"
    /\ md_kind = "tuple"
    /\ md_polls = 4

\* C2: without two consecutive equal samples within the budget the wrapper
\* still terminates: it takes max_loop + 1 samples and no more, returns the
\* last one, warns, and ends in no error state.
C2_Safe ==
    /\ md_pc \in {"start", "loop", "returned"}
    /\ md_polls <= max_loop + 1
    /\ md_warned => md_pc = "returned"
    /\ (md_pc = "returned" /\ md_firstRepeat = 0) =>
          /\ md_warned
          /\ md_polls = max_loop + 1
          /\ md_result = Last(md_window)
C2_BudgetExhausted == []C2_Safe /\ <>(md_pc = "returned")

C2_Witness ==
    /\ md_pc = "returned"
    /\ md_warned
    /\ md_firstRepeat = 0
    /\ md_polls = max_loop + 1
(***************************************************************************)
(* SpecPattern: Pattern(G), Card(G, cost) and repeated rotate(1)           *)
(***************************************************************************)
P_Init ==
    /\ MD_Idle
    /\ R_Idle
    /\ S_Idle
    /\ H_Idle
    /\ p_pc = "new"
    /\ p_grid \in Grids
    /\ p_pat = None
    /\ p_orig = None
    /\ p_rots = 0
    /\ p_card = None

\* p = Pattern(G)
P_Construct ==
    /\ p_pc = "new"
    /\ LET p == PatternInit(p_grid)
       IN  IF p.ok
           THEN p_pc' = "built" /\ p_pat' = p /\ p_orig' = p
           ELSE p_pc' = "raised" /\ UNCHANGED <<p_pat, p_orig>>
    /\ UNCHANGED <<p_grid, p_rots, p_card, md_vars, r_vars, s_vars, h_vars>>

\* c = Card(G, 0)
P_Card ==
    /\ p_pc = "new"
    /\ LET c == CardInit(p_grid, 0)
       IN  IF c.ok
           THEN p_pc' = "card" /\ p_card' = c
           ELSE p_pc' = "raised" /\ UNCHANGED p_card
    /\ UNCHANGED <<p_grid, p_pat, p_orig, p_rots, md_vars, r_vars, s_vars, h_vars>>

\* p = p.rotate(1)
P_Rotate ==
    /\ p_pc = "built"
    /\ p_rots < MaxRots
    /\ LET q == PatternRotate(p_pat, 1)
       IN  IF q.ok
           THEN p_pat' = q /\ p_rots' = p_rots + 1 /\ UNCHANGED p_pc
           ELSE p_pc' = "raised" /\ UNCHANGED <<p_pat, p_rots>>
    /\ UNCHANGED <<p_grid, p_orig, p_card, md_vars, r_vars, s_vars, h_vars>>

P_Next == P_Construct \/ P_Card \/ P_Rotate

SpecPattern == P_Init /\ [][P_Next]_vars

\* C8: the grid stored by Pattern(G) is the contiguous sub-grid of G from the
\* first to the last non-empty row and column (the minimal bounding box).
C8_StoredGridIsBoundingBox ==
    p_pc = "built" => p_orig.grid = BoundingBox(p_grid)

\* C9: Pattern and Card construction succeed for every rectangular grid; a grid
\* without MyInk/MySpecial cells gives a Pattern of size 0.
C9_ConstructionNeverRaises ==
    /\ p_pc # "raised"
    /\ (p_pc = "built" /\ InkIndexes(p_grid) = <<>>) => p_orig.size = 0

\* C10: for every Pattern p, four rotate(1) calls give a Pattern equal to p
\* (same offsets, same squares), and p and every intermediate rotation have
\* offsets[0] = (0, 0).
C10_FourRotationsIdentity ==
    p_pc = "built" =>
        /\ p_pat.offsets[1] = <<0, 0>>
        /\ p_rots = 4 =>
              /\ PatternEq(p_pat, p_orig)
              /\ p_pat.offsets = p_orig.offsets
              /\ p_pat.squares = p_orig.squares

\* An L-shaped pattern whose first inked cell is not the top-left corner of the
\* trimmed grid and whose quarter turn differs from it, rotated four times.
C10_Witness ==
    /\ p_pc = "built"
    /\ p_rots = 4
    /\ p_orig.size = 3
    /\ p_orig.grid[1][1] = Empty
    /\ MySpecial \in {p_orig.squares[k] : k \in 1..3}
    /\ ~PatternEq(PatternRotate(p_orig, 1), p_orig)

(***************************************************************************)
(* Spec: TableTurfManager.run                                              *)
(***************************************************************************)
Closers ==
    { [max_win |-> Unset, max_battle |-> Unset, max_time |-> Unset],
      [max_win |-> Some(0), max_battle |-> Unset, max_time |-> Unset],
      [max_win |-> Some(1), max_battle |-> Some(2), max_time |-> Unset],
      [max_win |-> Unset, max_battle |-> Unset, max_time |-> Some(1)] }

Init ==
    /\ MD_Idle
    /\ P_Idle
    /\ S_Idle
    /\ H_Idle
    /\ pc = "run"
    /\ deck \in {0, MaxDeck}
    /\ closer \in Closers
    /\ stats = NewStats
    /\ now = 0
    /\ round = 0
    /\ hands = <<>>
    /\ step = NoStep
    /\ result = GetResult
    /\ close = FALSE
    /\ target = 0
    /\ count = 0
    /\ uiRot = 0
    /\ out = NoOut
    /\ calls = 0
    /\ completed = 0
    /\ turns = 0
    /\ exact = TRUE

\* run, lines 85-90
RunStart ==
    /\ pc = "run"
    /\ stats' = [stats EXCEPT !.start_time = now]
    /\ pc' = "select_deck"
    /\ UNCHANGED <<deck, closer, now, round, hands, step, result, close, target, count, uiRot, out, calls, completed, turns, exact, md_vars, p_vars, s_vars, h_vars>>

\* __select_deck, lines 107-116: one pass of the cursor loop
SelectDeck ==
    /\ pc = "select_deck"
    /\ target' = deck
    /\ \E current \in DeckCursor :
        IF current = deck
        THEN pc' = "deck_confirm" /\ UNCHANGED out
        ELSE IF current # -1
        THEN out' = Macro("deck", deck, current, 1) /\ UNCHANGED pc
        ELSE out' = Sleep("deck") /\ UNCHANGED pc
    /\ UNCHANGED <<deck, closer, stats, now, round, hands, step, result, close, count, uiRot, calls, completed, turns, exact, md_vars, p_vars, s_vars, h_vars>>

\* __select_deck, lines 117-120
SelectDeckConfirm ==
    /\ pc = "deck_confirm"
    /\ out' = Press(2)
    /\ pc' = "redraw_wait"
    /\ UNCHANGED <<deck, closer, stats, now, round, hands, step, result, close, target, count, uiRot, calls, completed, turns, exact, md_vars, p_vars, s_vars, h_vars>>

\* __redraw, lines 123-135: wait for the cursor, read the hand, ask the AI
RedrawWait ==
    /\ pc = "redraw_wait"
    /\ \E current \in RedrawCursor :
        IF current = -1
        THEN out' = Sleep("redraw") /\ UNCHANGED <<pc, target>>
        ELSE \E redraw \in BOOLEAN :
                /\ target' = IF redraw THEN 1 ELSE 0
                /\ pc' = "redraw_loop"
                /\ UNCHANGED out
    /\ UNCHANGED <<deck, closer, stats, now, round, hands, step, result, close, count, uiRot, calls, completed, turns, exact, md_vars, p_vars, s_vars, h_vars>>

\* __redraw, lines 136-141: one pass of the cursor loop
RedrawLoop ==
    /\ pc = "redraw_loop"
    /\ \E current \in RedrawCursor :
        IF current = target
        THEN pc' = "redraw_confirm" /\ UNCHANGED out
        ELSE out' = Macro("redraw", target, current, 1) /\ UNCHANGED pc
    /\ UNCHANGED <<deck, closer, stats, now, round, hands, step, result, close, target, count, uiRot, calls, completed, turns, exact, md_vars, p_vars, s_vars, h_vars>>

\* __redraw, lines 142-143
RedrawConfirm ==
    /\ pc = "redraw_confirm"
    /\ out' = Press(2)
    /\ pc' = "init_roi"
    /\ UNCHANGED <<deck, closer, stats, now, round, hands, step, result, close, target, count, uiRot, calls, completed, turns, exact, md_vars, p_vars, s_vars, h_vars>>

\* __init_roi, lines 146-154, and the entry of the round loop (line 95)
InitRoi ==
    /\ pc = "init_roi"
    /\ \E current \in HandsCursor :
        IF current = -1
        THEN out' = Sleep("hands") /\ UNCHANGED <<pc, round>>
        ELSE pc' = "get_status" /\ round' = Rounds /\ UNCHANGED out
    /\ UNCHANGED <<deck, closer, stats, now, hands, step, result, close, target, count, uiRot, calls, completed, turns, exact, md_vars, p_vars, s_vars, h_vars>>

\* __get_status, lines 157-172
GetStatus ==
    /\ pc = "get_status"
    /\ \E current \in HandsCursor :
        IF current = -1
        THEN out' = Sleep("hands") /\ UNCHANGED <<pc, hands>>
        ELSE pc' = "next_step" /\ hands' = HandIds /\ UNCHANGED out
    /\ UNCHANGED <<deck, closer, stats, now, round, step, result, close, target, count, uiRot, calls, completed, turns, exact, md_vars, p_vars, s_vars, h_vars>>

\* run, line 97: step = self.__ai.next_step(status)
NextStep ==
    /\ pc = "next_step"
    /\ \E s \in RunSteps : step' = s
    /\ calls' = calls + 1
    /\ pc' = "move"
    /\ UNCHANGED <<deck, closer, stats, now, round, hands, result, close, target, count, uiRot, out, completed, turns, exact, md_vars, p_vars, s_vars, h_vars>>

\* __move, lines 183-184 / 192-193 / 197: which cursor loop comes first
MoveBegin ==
    /\ pc = "move"
    /\ IF step.action = "Skip"
       THEN pc' = "skip_cursor" /\ target' = SkipSlot
       ELSE IF step.action = "SpecialAttack"
       THEN pc' = "special_cursor" /\ target' = SpecialSlot
       ELSE pc' = "card_cursor" /\ target' = Index(HandsOf(hands), StepCard(step))
    /\ UNCHANGED <<deck, closer, stats, now, round, hands, step, result, close, count, uiRot, out, calls, completed, turns, exact, md_vars, p_vars, s_vars, h_vars>>

\* __move_hands_cursor, lines 174-180: one pass of the cursor loop
MoveHandsCursor ==
    /\ pc \in {"skip_cursor", "special_cursor", "skip_card_cursor", "card_cursor"}
    /\ \E current \in HandsCursor :
        IF current = target
        THEN /\ pc' = CASE pc = "skip_cursor" -> "skip_wait"
                        [] pc = "special_cursor" -> "special_wait"
                        [] pc = "skip_card_cursor" -> "skip_confirm"
                        [] pc = "card_cursor" -> "select_card"
             /\ UNCHANGED out
        ELSE out' = Macro("hands", target, current, 1) /\ UNCHANGED pc
    /\ UNCHANGED <<deck, closer, stats, now, round, hands, step, result, close, target, count, uiRot, calls, completed, turns, exact, md_vars, p_vars, s_vars, h_vars>>

\* __move, lines 185-187
SkipWait ==
    /\ pc = "skip_wait"
    /\ \E skip \in BOOLEAN :
        IF ~skip
        THEN out' = Press(1) /\ UNCHANGED <<pc, target>>
        ELSE pc' = "skip_card_cursor" /\ target' = Index(HandsOf(hands), StepCard(step)) /\ UNCHANGED out
    /\ UNCHANGED <<deck, closer, stats, now, round, hands, step, result, close, count, uiRot, calls, completed, turns, exact, md_vars, p_vars, s_vars, h_vars>>

\* __move, lines 188-190
SkipConfirm ==
    /\ pc = "skip_confirm"
    /\ out' = Press(2)
    /\ pc' = "move_done"
    /\ UNCHANGED <<deck, closer, stats, now, round, hands, step, result, close, target, count, uiRot, calls, completed, turns, exact, md_vars, p_vars, s_vars, h_vars>>

\* __move, lines 194-197
SpecialWait ==
    /\ pc = "special_wait"
    /\ \E special_on \in BOOLEAN :
        IF ~special_on
        THEN out' = Press(1) /\ UNCHANGED <<pc, target>>
        ELSE pc' = "card_cursor" /\ target' = Index(HandsOf(hands), StepCard(step)) /\ UNCHANGED out
    /\ UNCHANGED <<deck, closer, stats, now, round, hands, step, result, close, count, uiRot, calls, completed, turns, exact, md_vars, p_vars, s_vars, h_vars>>

\* __move, lines 198-205: press A and read the preview until it shows the card.
\* The game shows the preview at a rotation of its own choosing.
SelectCard ==
    /\ pc = "select_card"
    /\ out' = Press(1)
    /\ \E preview \in PreviewReadings(StepCard(step)), approx \in BOOLEAN :
        IF ComparePattern(preview, GetPattern(StepCard(step), 0), approx)
        THEN /\ pc' = IF step.rotate > 0 THEN "rotate" ELSE "translate"
             /\ \E r \in 0..3 : uiRot' = r
        ELSE UNCHANGED <<pc, uiRot>>
    /\ UNCHANGED <<deck, closer, stats, now, round, hands, step, result, close, target, count, calls, completed, turns, exact, md_vars, p_vars, s_vars, h_vars>>

\* __move, lines 206-218: one pass of the rotation loop; the controller turns
\* the preview by the quarter turns of the macro.
Rotate ==
    /\ pc = "rotate"
    /\ \E actual \in PreviewReadings(StepCard(step)), approx \in 0..3 :
        LET all_patterns == [i \in 1..4 |-> GetPattern(StepCard(step), i - 1)]
            current_rotate == CurrentRotate(all_patterns, actual, approx)
            rotate == RotateSteps(step.rotate, current_rotate)
        IN  /\ exact' = (exact /\ actual = GetPattern(StepCard(step), uiRot))
            /\ IF rotate = 0
               THEN /\ pc' = "translate"
                    /\ UNCHANGED <<out, uiRot, turns>>
               ELSE /\ turns + rotate <= MaxTurns
                    /\ out' = Macro("rotate", step.rotate, current_rotate, rotate)
                    /\ uiRot' = (uiRot + rotate) % 4
                    /\ turns' = turns + rotate
                    /\ UNCHANGED pc
    /\ UNCHANGED <<deck, closer, stats, now, round, hands, step, result, close, target, count, calls, completed, md_vars, p_vars, s_vars, h_vars>>

\* __move, lines 220-230: read the preview until it shows the rotated card, then
\* send the macro action.move_card_marco computes, or leave when it is empty.
\* The record of the rotation loop ends with the loop that follows it.
Translate ==
    /\ pc = "translate"
    /\ \E preview \in PreviewReadings(StepCard(step)), approx \in BOOLEAN :
        IF ~ComparePattern(preview, GetPattern(StepCard(step), step.rotate), approx)
        THEN UNCHANGED <<pc, out, uiRot, turns, exact>>
        ELSE \E empty \in BOOLEAN :
                IF empty
                THEN /\ pc' = "place_confirm"
                     /\ uiRot' = 0 /\ turns' = 0 /\ exact' = TRUE
                     /\ UNCHANGED out
                ELSE out' = Macro("card", 0, 0, 1) /\ UNCHANGED <<pc, uiRot, turns, exact>>
    /\ UNCHANGED <<deck, closer, stats, now, round, hands, step, result, close, target, count, calls, completed, md_vars, p_vars, s_vars, h_vars>>

\* __move, lines 231-232
PlaceConfirm ==
    /\ pc = "place_confirm"
    /\ out' = Press(2)
    /\ pc' = "move_done"
    /\ UNCHANGED <<deck, closer, stats, now, round, hands, step, result, close, target, count, uiRot, calls, completed, turns, exact, md_vars, p_vars, s_vars, h_vars>>

\* run, lines 95-98: __move returned; the next round, or the end of the loop
RoundEnd ==
    /\ pc = "move_done"
    /\ IF NextRound(round) > 0
       THEN pc' = "get_status" /\ round' = NextRound(round)
       ELSE pc' = "get_result" /\ UNCHANGED round
    /\ UNCHANGED <<deck, closer, stats, now, hands, step, result, close, target, count, uiRot, out, calls, completed, turns, exact, md_vars, p_vars, s_vars, h_vars>>

\* __get_result, lines 234-238
GetResultStep ==
    /\ pc = "get_result"
    /\ result' = GetResult
    /\ completed' = completed + 1
    /\ pc' = "update_stats"
    /\ UNCHANGED <<deck, closer, stats, now, round, hands, step, close, target, count, uiRot, out, calls, turns, exact, md_vars, p_vars, s_vars, h_vars>>

\* __update_stats, lines 240-246; the clock has not gone back since run started
UpdateStatsStep ==
    /\ pc = "update_stats"
    /\ \E t \in now..(now + 1) :
        /\ now' = t
        /\ stats' = UpdateStats(stats, result, t)
    /\ pc' = "exit"
    /\ UNCHANGED <<deck, closer, round, hands, step, result, close, target, count, uiRot, out, calls, completed, turns, exact, md_vars, p_vars, s_vars, h_vars>>

\* run, line 101: close = closer.exit(self.stats)
ExitStep ==
    /\ pc = "exit"
    /\ close' = Exit(closer, stats)
    /\ pc' = "close"
    /\ UNCHANGED <<deck, closer, stats, now, round, hands, step, result, target, count, uiRot, out, calls, completed, turns, exact, md_vars, p_vars, s_vars, h_vars>>

\* __close, lines 249-252
CloseBegin ==
    /\ pc = "close"
    /\ out' = Press(2)
    /\ target' = CloseTarget(close)
    /\ count' = 0
    /\ pc' = "close_loop"
    /\ UNCHANGED <<deck, closer, stats, now, round, hands, step, result, close, uiRot, calls, completed, turns, exact, md_vars, p_vars, s_vars, h_vars>>

\* __close, lines 253-265: one pass of the cursor loop
CloseLoop ==
    /\ pc = "close_loop"
    /\ \E current \in ReplayCursor :
        IF current = target
        THEN pc' = "close_confirm" /\ UNCHANGED <<out, count>>
        ELSE /\ count' = (count + 1) % UnlockPeriod
             /\ out' = IF count' = 0 THEN Press(1)
                       ELSE IF current # -1 THEN Macro("replay", target, current, 1)
                       ELSE Sleep("replay")
             /\ UNCHANGED pc
    /\ UNCHANGED <<deck, closer, stats, now, round, hands, step, result, close, target, uiRot, calls, completed, turns, exact, md_vars, p_vars, s_vars, h_vars>>

\* __close, lines 266-267, and run, lines 103-104 / 91-92
CloseConfirm ==
    /\ pc = "close_confirm"
    /\ out' = Press(2)
    /\ IF close
       THEN pc' = "returned" /\ UNCHANGED calls
       ELSE stats.battle < MaxBattle /\ pc' = "select_deck" /\ calls' = 0
    /\ UNCHANGED <<deck, closer, stats, now, round, hands, step, result, close, target, count, uiRot, completed, turns, exact, md_vars, p_vars, s_vars, h_vars>>

MoveNext ==
    \/ MoveBegin \/ MoveHandsCursor \/ SkipWait \/ SkipConfirm \/ SpecialWait
    \/ SelectCard \/ Rotate \/ Translate \/ PlaceConfirm

Next ==
    \/ RunStart \/ SelectDeck \/ SelectDeckConfirm \/ RedrawWait \/ RedrawLoop
    \/ RedrawConfirm \/ InitRoi \/ GetStatus \/ NextStep \/ MoveNext \/ RoundEnd
    \/ GetResultStep \/ UpdateStatsStep \/ ExitStep \/ CloseBegin \/ CloseLoop
    \/ CloseConfirm

Spec == Init /\ [][Next]_vars

(***************************************************************************)
(* Claims about run (checked under Spec)                                   *)
(***************************************************************************)
MovePcs == {"move", "skip_cursor", "skip_wait", "skip_card_cursor", "skip_confirm",
            "special_cursor", "special_wait", "card_cursor", "select_card",
            "rotate", "translate", "place_confirm", "move_done"}

PhaseOf(p) ==
    CASE p = "run" -> "Start"
      [] p \in {"select_deck", "deck_confirm"} -> "SelectDeck"
      [] p \in {"redraw_wait", "redraw_loop", "redraw_confirm"} -> "Redraw"
      [] p = "init_roi" -> "InitRoi"
      [] p = "get_status" -> "ObserveRound"
      [] p = "next_step" -> "DecideStep"
      [] p \in MovePcs -> "ExecuteStep"
      [] p = "get_result" -> "ObserveResult"
      [] p = "update_stats" -> "UpdateStats"
      [] p \in {"exit", "close", "close_loop", "close_confirm"} -> "CloseOrReplay"
      [] p = "returned" -> "Returned"

C3_Order ==
    { <<"Start", "SelectDeck">>, <<"SelectDeck", "Redraw">>, <<"Redraw", "InitRoi">>,
      <<"InitRoi", "ObserveRound">>, <<"ObserveRound", "DecideStep">>,
      <<"DecideStep", "ExecuteStep">>, <<"ExecuteStep", "ObserveRound">>,
      <<"ExecuteStep", "ObserveResult">>, <<"ObserveResult", "UpdateStats">>,
      <<"UpdateStats", "CloseOrReplay">>, <<"CloseOrReplay", "SelectDeck">>,
      <<"CloseOrReplay", "Returned">> }

C3_Counts ==
    LET ph == PhaseOf(pc)
    IN  /\ ph \in {"Start", "SelectDeck", "Redraw", "InitRoi"} => calls = 0
        /\ ph \in {"ObserveRound", "DecideStep"} => round \in 1..12 /\ calls = 12 - round
        /\ ph = "ExecuteStep" => round \in 1..12 /\ calls = 13 - round
        /\ ph \in {"ObserveResult", "UpdateStats", "CloseOrReplay", "Returned"} => calls = 12

C3_Step ==
    LET ph == PhaseOf(pc)
        ph2 == PhaseOf(pc')
    IN  /\ ph2 # ph => <<ph, ph2>> \in C3_Order
        /\ (ph = "InitRoi" /\ ph2 = "ObserveRound") => round' = 12
        /\ (ph = "ExecuteStep" /\ ph2 = "ObserveRound") => round > 1 /\ round' = round - 1
        /\ (ph = "ExecuteStep" /\ ph2 = "ObserveResult") => round = 1
        /\ calls' # calls =>
              \/ ph = "DecideStep" /\ ph2 = "ExecuteStep" /\ calls' = calls + 1
              \/ ph = "CloseOrReplay" /\ ph2 = "SelectDeck" /\ calls' = 0
        /\ step' # step => ph = "DecideStep"

\* C3: every match goes SelectDeck, Redraw, (InitRoi,) then 12 rounds of
\* observe, decide, execute with round numbers 12 down to 1, then
\* ObserveResult, UpdateStats, CloseOrReplay; next_step is called once per
\* round, after that round's observation and before its move, 12 times a match.
C3_PhaseOrder == []C3_Counts /\ [][C3_Step]_vars

\* The twelfth move of a second match has been executed.
C3_Witness ==
    /\ pc = "get_result"
    /\ calls = 12
    /\ round = 1
    /\ stats.battle = 1

\* The Exit policy as the claim words it.
C4_Reached(c, st) ==
    \/ \E m \in c.max_win : m <= st.win
    \/ \E m \in c.max_battle : m <= st.battle
    \/ \E m \in c.max_time : m <= st.time

C4_Inv ==
    /\ pc \in {"close", "close_loop", "close_confirm", "returned"} =>
          close = C4_Reached(closer, stats)
    /\ pc \in {"close_loop", "close_confirm"} => target = (IF close THEN 0 ELSE 1)
    /\ pc = "returned" => close
    /\ (closer.max_win = {} /\ closer.max_battle = {} /\ closer.max_time = {}) =>
          pc # "returned"
    /\ (stats.battle > 0 /\ PhaseOf(pc) \in {"SelectDeck", "Redraw", "InitRoi",
            "ObserveRound", "DecideStep", "ExecuteStep", "ObserveResult", "UpdateStats"}) =>
          ~C4_Reached(closer, stats)

C4_Step ==
    /\ (pc = "close_confirm" /\ pc' # pc) => pc' = (IF close THEN "returned" ELSE "select_deck")
    /\ pc = "returned" => UNCHANGED vars
    /\ pc' = "returned" => pc \in {"close_confirm", "returned"}
    /\ (pc' = "select_deck" /\ pc # "select_deck") => pc \in {"run", "close_confirm"}

\* C4: after each stats update the policy signals stop iff a configured
\* threshold is <= its stat; on stop run puts the replay cursor on choice 0 and
\* returns, otherwise on choice 1 and starts the next match at SelectDeck; run
\* never returns without a threshold, and plays no match after one at whose
\* end a threshold was reached.
C4_ExitPolicy == []C4_Inv /\ [][C4_Step]_vars

\* run returned after the second match, on the battle threshold alone.
C4_Witness ==
    /\ pc = "returned"
    /\ closer.max_battle = {2}
    /\ stats.battle = 2
    /\ stats.win = 0

\* C5: no cursor-movement macro (deck, redraw, hands, replay) is computed from
\* a current index of -1.
C5_NoMacroFromSentinel ==
    (out.kind = "macro" /\ out.dev \in {"deck", "redraw", "hands", "replay"}) =>
        out.current # -1

C7_Inv ==
    /\ 0 <= stats.win /\ stats.win <= stats.battle
    /\ stats.battle = (IF pc = "update_stats" THEN completed - 1 ELSE completed)
    /\ \A res \in [my_ink : 0..MaxInk, his_ink : 0..MaxInk], t \in now..(now + 1) :
          LET after == UpdateStats(stats, res, t)
          IN  /\ after.battle = stats.battle + 1
              /\ after.win = stats.win + (IF res.my_ink > res.his_ink THEN 1 ELSE 0)
              /\ after.time = t - stats.start_time

C7_Step ==
    /\ (pc = "update_stats" /\ pc' # pc) =>
          /\ stats'.battle = stats.battle + 1
          /\ stats'.win = stats.win + (IF result.my_ink > result.his_ink THEN 1 ELSE 0)
          /\ stats'.time = now' - stats.start_time
          /\ stats'.start_time = stats.start_time
    /\ (stats' # stats /\ pc # "update_stats") =>
          pc = "run" /\ stats' = [stats EXCEPT !.start_time = now]

\* C7: __update_stats adds 1 to battle, adds 1 to win iff my_ink > his_ink
\* (for the Result run passes it and for every Result with ink totals up to
\* MaxInk), and sets time to now - start_time; so 0 <= win <= battle and
\* battle is the number of completed matches.
C7_StatsUpdate == []C7_Inv /\ [][C7_Step]_vars

\* Two matches counted, the clock having advanced during both.
C7_Witness ==
    /\ pc = "exit"
    /\ stats.battle = 2
    /\ completed = 2
    /\ stats.time = 2

(***************************************************************************)
(* SpecMove: one call of __move(status, step)                              *)
(***************************************************************************)
MoveInit ==
    /\ MD_Idle
    /\ P_Idle
    /\ S_Idle
    /\ H_Idle
    /\ pc = "move"
    /\ deck = 0
    /\ closer = [max_win |-> Unset, max_battle |-> Unset, max_time |-> Unset]
    /\ stats = NewStats
    /\ now = 0
    /\ round \in {1, Rounds}
    /\ hands = HandIds
    /\ step \in AllSteps
    /\ result = GetResult
    /\ close = FALSE
    /\ target = 0
    /\ count = 0
    /\ uiRot = 0
    /\ out = NoOut
    /\ calls = Rounds + 1 - round
    /\ completed = 0
    /\ turns = 0
    /\ exact = TRUE

SpecMove == MoveInit /\ [][MoveNext]_vars

(***************************************************************************)
(* Claims about __move (checked under SpecMove)                            *)
(***************************************************************************)
\* One pass of the rotation loop as the claim words it.
C6_Iteration ==
    (pc = "rotate" /\ <<pc, out, turns>>' # <<pc, out, turns>>) =>
        \E actual \in PreviewReadings(StepCard(step)), c \in 0..3 :
            LET pats == [i \in 1..4 |-> GetPattern(StepCard(step), i - 1)]
                steps == (step.rotate - c + 4) % 4
            IN  /\ (\E i \in 1..4 : PatternEq(pats[i], actual)) => PatternEq(pats[c + 1], actual)
                /\ IF steps = 0
                   THEN pc' = "translate" /\ out' = out /\ turns' = turns
                   ELSE /\ pc' = "rotate"
                        /\ out' = Macro("rotate", step.rotate, c, steps)
                        /\ turns' = turns + steps

\* With the preview at rotation 0 when the loop starts, target 2 and every
\* read showing the preview as it is: 2 quarter turns in total, then the loop stops.
C6_TwoTurns ==
    (/\ pc \in {"rotate", "translate"}
     /\ step.rotate = 2
     /\ exact
     /\ (uiRot + 3 * turns) % 4 = 0) =>
        /\ turns <= 2
        /\ pc = "translate" => turns = 2

\* C6: each pass of the rotation loop takes as current index the rotated
\* pattern equal to the preview, computes steps = (t - c + 4) mod 4, stops
\* without input on 0 and else issues exactly `steps` quarter turns; from
\* rotation 0 to target 2 it issues exactly 2 quarter turns and stops.
C6_RotationConverges == [][C6_Iteration]_vars /\ []C6_TwoTurns

C14_Step ==
    /\ (pc = "translate" /\ <<pc, out>>' # <<pc, out>>) =>
          \/ pc' = "translate" /\ out'.kind = "macro" /\ out'.dev = "card"
          \/ pc' = "place_confirm" /\ out' = out
    /\ (pc' = "place_confirm" /\ pc # "place_confirm") => pc = "translate"
    /\ (pc = "place_confirm" /\ <<pc, out>>' # <<pc, out>>) =>
          /\ pc' = "move_done"
          /\ out'.kind = "press" /\ out'.dev = "A" /\ out'.n = 2
    /\ pc = "move_done" => out' = out /\ pc' = pc

\* C14: each pass of the translation loop re-reads the preview until it shows
\* the card at the target rotation; a non-empty macro is then sent and the loop
\* repeats, an empty one ends the loop unsent; exactly two confirm presses
\* follow the loop and no controller input follows them in that move.
C14_TranslationConverges == [][C14_Step]_vars

\* A Place step with a rotation whose translation loop has ended and whose
\* two confirm presses were made.
C14_Witness ==
    /\ pc = "move_done"
    /\ step.action = "Place"
    /\ step.rotate = 1
    /\ out.kind = "press" /\ out.n = 2

C15_Inv ==
    step.action = "Skip" =>
        /\ pc \in {"move", "skip_cursor", "skip_wait", "skip_card_cursor", "skip_confirm", "move_done"}
        /\ pc = "skip_cursor" => target = 4
        /\ pc \in {"skip_card_cursor", "skip_confirm"} => target = step.card
        /\ out.kind = "macro" => out.dev = "hands" /\ out.target \in {4, step.card}
        /\ pc \in {"skip_cursor", "skip_wait"} => ~(out.kind = "macro" /\ out.target # 4)

C15_Step ==
    step.action = "Skip" =>
        /\ (pc = "move" /\ pc' # pc) => pc' = "skip_cursor"
        /\ (pc = "skip_cursor" /\ pc' # pc) => pc' = "skip_wait" /\ out' = out
        /\ (pc = "skip_wait" /\ <<pc, out>>' # <<pc, out>>) =>
              \/ pc' = pc /\ out'.kind = "press" /\ out'.n = 1
              \/ pc' = "skip_card_cursor" /\ out' = out
        /\ (pc = "skip_card_cursor" /\ pc' # pc) => pc' = "skip_confirm" /\ out' = out
        /\ (pc = "skip_confirm" /\ <<pc, out>>' # <<pc, out>>) =>
              pc' = "move_done" /\ out'.kind = "press" /\ out'.n = 2
        /\ pc = "move_done" => out' = out /\ pc' = pc

\* C15: a Skip step moves the hands cursor to slot 4, presses confirm until
\* the skip UI is observed and no longer, moves the cursor to the slot of the
\* step's card, presses confirm twice and returns; it issues no rotate macro,
\* no card-translation macro and never goes to slot 5.
C15_SkipStep == []C15_Inv /\ [][C15_Step]_vars

\* A Skip of the card in slot 3, confirmed.
C15_Witness ==
    /\ step.action = "Skip"
    /\ step.card = 3
    /\ pc = "move_done"
    /\ out.kind = "press" /\ out.n = 2

C16_Inv ==
    /\ (step.action = "SpecialAttack" /\ pc \in {"special_cursor", "special_wait"}) => target = 5
    /\ step.action = "Place" =>
          /\ pc \notin {"special_cursor", "special_wait"}
          /\ target # 5
          /\ ~(out.kind = "macro" /\ out.dev = "hands" /\ out.target = 5)

C16_Step ==
    /\ step.action = "SpecialAttack" =>
          /\ (pc = "move" /\ pc' # pc) => pc' = "special_cursor"
          /\ (pc = "special_cursor" /\ pc' # pc) => pc' = "special_wait" /\ out' = out
          /\ (pc = "special_wait" /\ <<pc, out>>' # <<pc, out>>) =>
                \/ pc' = pc /\ out'.kind = "press" /\ out'.n = 1
                \/ pc' = "card_cursor" /\ out' = out /\ target' = step.card
          /\ (pc' = "card_cursor" /\ pc # "card_cursor") => pc = "special_wait"
    /\ (step.action = "Place" /\ pc' = "card_cursor" /\ pc # "card_cursor") => pc = "move"

\* C16: a SpecialAttack step moves the hands cursor to slot 5 first and
\* presses confirm only while special mode is not observed active; the cursor
\* goes to the card's slot only after special mode was observed active; a
\* Place step never goes to slot 5.
C16_SpecialAttackStep == []C16_Inv /\ [][C16_Step]_vars

\* A SpecialAttack whose confirm press was needed once; the card's slot is next.
C16_Witness ==
    /\ step.action = "SpecialAttack"
    /\ step.card = 2
    /\ pc = "card_cursor"
    /\ target = 2
    /\ out.kind = "press" /\ out.n = 1

\* C17: when the preview read in the rotation loop is the card at the target
\* rotation t (the game shows rotation t and every read so far was exact),
\* the loop exits without a further rotate macro, for every card, symmetric
\* ones included.
C17_StopsAtTarget ==
    [][ (pc = "rotate" /\ step.rotate \in 1..3 /\ uiRot = step.rotate /\ exact') =>
            (pc' = "translate" /\ out' = out) ]_vars

(***************************************************************************)
(* SpecStage: Stage(G)                                                     *)
(***************************************************************************)
S_Init ==
    /\ MD_Idle
    /\ P_Idle
    /\ R_Idle
    /\ H_Idle
    /\ s_pc = "new"
    /\ s_grid \in StageGrids
    /\ s_stage = NoStage

\* s = Stage(G)
S_Construct ==
    /\ s_pc = "new"
    /\ s_stage' = StageInit(s_grid)
    /\ s_pc' = "built"
    /\ UNCHANGED <<s_grid, md_vars, p_vars, r_vars, h_vars>>

S_Next == S_Construct

SpecStage == S_Init /\ [][S_Next]_vars

SeqSet(q) == {q[k] : k \in 1..Len(q)}
CellsOf(g) == (0..(NumRows(g) - 1)) \X (0..(NumCols(g) - 1))
Adjacent(a, b) ==
    /\ a # b
    /\ a[1] - b[1] \in -1..1
    /\ a[2] - b[2] \in -1..1
CellsWith(g, vals) == {c \in CellsOf(g) : At(g, c) \in vals}

C11_Player(sp_value, sp, fiery_sp, unfiery_sp) ==
    /\ SeqSet(sp) = CellsWith(s_grid, {sp_value})
    /\ SeqSet(fiery_sp) \cap SeqSet(unfiery_sp) = {}
    /\ SeqSet(fiery_sp) \cup SeqSet(unfiery_sp) = SeqSet(sp)
    /\ Len(fiery_sp) + Len(unfiery_sp) = Len(sp)
    /\ \A c \in SeqSet(sp) :
          c \in SeqSet(fiery_sp) <=>
              \A n \in CellsOf(s_grid) : Adjacent(n, c) => At(s_grid, n) # Empty

\* C11: for each player fiery_sp and unfiery_sp partition sp, a special cell
\* is fiery iff all its in-bounds 8-neighbours are non-Empty, and fiery_grid
\* is true exactly at both players' fiery special cells.
C11_FieryPartition ==
    s_pc = "built" =>
        /\ C11_Player(MySpecial, s_stage.my_sp, s_stage.my_fiery_sp, s_stage.my_unfiery_sp)
        /\ C11_Player(HisSpecial, s_stage.his_sp, s_stage.his_fiery_sp, s_stage.his_unfiery_sp)
        /\ \A c \in CellsOf(s_grid) :
              s_stage.fiery_grid[c[1] + 1][c[2] + 1] <=>
                  c \in SeqSet(s_stage.my_fiery_sp) \cup SeqSet(s_stage.his_fiery_sp)

\* A 3 x 3 stage whose centre is my fiery special cell, with fiery opponent
\* special cells on the border, where some neighbour slots are out of bounds.
C11_Witness ==
    /\ s_pc = "built"
    /\ NumRows(s_grid) = 3
    /\ <<1, 1>> \in SeqSet(s_stage.my_fiery_sp)
    /\ <<0, 0>> \in SeqSet(s_stage.his_fiery_sp)
    /\ s_stage.fiery_grid[2][2]

\* A stage with a special cell that has an Empty neighbour, and one on an
\* edge that has none.
C11_UnfieryWitness ==
    /\ s_pc = "built"
    /\ s_stage.my_unfiery_sp # <<>>
    /\ s_stage.his_fiery_sp # <<>>

C12_Player(ink_values, neighborhoods) ==
    /\ SeqSet(neighborhoods) =
          { c \in CellsOf(s_grid) :
              /\ At(s_grid, c) = Empty
              /\ \E i \in CellsWith(s_grid, ink_values) : Adjacent(c, i) }
    /\ Cardinality(SeqSet(neighborhoods)) = Len(neighborhoods)

\* C12: for each player neighborhoods is, without duplicates, exactly the
\* in-bounds Empty cells 8-adjacent to one of the player's ink or special
\* cells; no out-of-bounds coordinate and no non-Empty cell is in it.
C12_Neighborhoods ==
    s_pc = "built" =>
        /\ C12_Player({MyInk, MySpecial}, s_stage.my_neighborhoods)
        /\ C12_Player({HisInk, HisSpecial}, s_stage.his_neighborhoods)

\* An Empty cell next to two of my ink cells that lie on the border of the
\* stage (so the -1 padding and a duplicate both occur), and an opponent
\* without ink.
C12_Witness ==
    /\ s_pc = "built"
    /\ Len(s_stage.my_ink) >= 2
    /\ \E c \in SeqSet(s_stage.my_neighborhoods) :
          Cardinality({i \in SeqSet(s_stage.my_ink) : Adjacent(c, i)}) >= 2
    /\ s_stage.his_ink = <<>>
    /\ s_stage.his_neighborhoods = <<>>

(***************************************************************************)
(* SpecHands: detection.hands on one cell                                  *)
(***************************************************************************)
H_Init ==
    /\ MD_Idle
    /\ P_Idle
    /\ R_Idle
    /\ S_Idle
    /\ h_pc = "new"
    /\ h_counts \in BandCounts
    /\ h_cell = 0

\* Lines 74-87 for one cell
H_Classify ==
    /\ h_pc = "new"
    /\ h_cell' = Classify(h_counts)
    /\ h_pc' = "classified"
    /\ UNCHANGED <<h_counts, md_vars, p_vars, r_vars, s_vars>>

H_Next == H_Classify

SpecHands == H_Init /\ [][H_Next]_vars

\* C13: a cell is MySpecial whenever a special band is above the ratio, MyInk
\* iff an ink band is and no special band is, Empty iff no band is.
C13_SpecialWins ==
    h_pc = "classified" =>
        LET ink == AboveRatio(h_counts.ink) \/ AboveRatio(h_counts.dark_ink)
            special == AboveRatio(h_counts.special) \/ AboveRatio(h_counts.dark_special)
        IN  /\ special => h_cell = MySpecial
            /\ h_cell = MyInk <=> (ink /\ ~special)
            /\ h_cell = Empty <=> (~ink /\ ~special)
====
